---- MODULE Spec2Model ----
(***************************************************************************)
(* Model of modal-whisper-service/main.py: transcribe_video (download,     *)
(* probe, partition, per-chunk extraction, per-chunk recognition, merge)   *)
(* and transcribe_endpoint (the thin adapter around it).                   *)
(*                                                                         *)
(* Times are numbers of seconds.  The external collaborators (whisper,     *)
(* yt-dlp, ffprobe, ffmpeg) are the environment: every call either fails   *)
(* or returns one value of a bounded set.  ffprobe reports the container   *)
(* duration, a non-negative number, or something float() cannot read.      *)
(* The variable io is a history of the collaborator calls made so far; the *)
(* program never reads it.                                                 *)
(***************************************************************************)
EXTENDS Integers, Sequences, FiniteSets, TLC

\* ---- bounds of the model ----
MaxDuration == 4
MaxChunkDuration == 2
MaxChunks == 3
MaxRaw == 2
MaxSegs == 2

\* ---- program constants ----
DefaultChunkDuration == 600

\* ---- input and environment domains ----
None == "None"
Urls == {"", "https://youtu.be/v"}
Items == {[k \in {} |-> ""]} \cup {[k \in {"video_url"} |-> u] : u \in Urls}
ChunkDurations == {-2, -1, 0} \cup (1..MaxChunkDuration) \cup {DefaultChunkDuration}
Durations == (0..MaxDuration) \cup {DefaultChunkDuration + 50, 2 * DefaultChunkDuration}
SegTexts == {"a"}
RawSegments ==
  {s \in [start : 0..MaxRaw, end : 0..MaxRaw, text : SegTexts] : s.end - s.start \in {0, 1}}
SegLists == UNION {[1..n -> RawSegments] : n \in 0..MaxSegs}
\* whisper's result["text"] is the text of its segments, laid end to end
TextOf(segs) == [k \in 1..Len(segs) |-> segs[k].text]
Results == {[text |-> TextOf(segs), segments |-> segs] : segs \in SegLists}
NoResult == [text |-> <<>>, segments |-> <<>>]

audio_file == <<"audio.m4a", 0>>
chunk_file(i) == <<"chunk.m4a", i>>

VARIABLES entry, item, video_url, chunk_duration, pc, ep, model, tmpdir, files,
          probed, duration, num_chunks, i, chunks, j, all_segments, full_text,
          ret, response, io

vars == <<entry, item, video_url, chunk_duration, pc, ep, model, tmpdir, files,
          probed, duration, num_chunks, i, chunks, j, all_segments, full_text,
          ret, response, io>>

\* ---- pure helpers ----
Abs(x) == IF x < 0 THEN -x ELSE x

\* int(a / b) for b # 0: Python's int() truncates toward zero
IntOfQuotient(a, b) ==
  IF (a >= 0) = (b > 0) THEN Abs(a) \div Abs(b) ELSE -(Abs(a) \div Abs(b))

IsShortLt(d, cd) == d < cd
\* line 86: if duration <= chunk_duration
IsShort(d, cd) == d <= cd

NumChunksNoPlusOne(d, cd) == IntOfQuotient(d, cd)
\* line 104: num_chunks = int(duration / chunk_duration) + 1
NumChunks(d, cd) == IntOfQuotient(d, cd) + 1

StartTimeZero(k, cd) == 0
\* line 107: start_time = i * chunk_duration
StartTime(k, cd) == k * cd

AdjustStartOnly(seg, start_time) ==
  [start |-> seg.start + start_time, end |-> seg.end, text |-> seg.text]
\* lines 132-136: the dict appended for one raw segment
Adjust(seg, start_time) ==
  [start |-> seg.start + start_time, end |-> seg.end + start_time, text |-> seg.text]

\* lines 91-98: the list comprehension of the short path
CopySegments(segs) ==
  [k \in 1..Len(segs) |-> [start |-> segs[k].start, end |-> segs[k].end, text |-> segs[k].text]]

RECURSIVE JoinNoSep(_)
JoinNoSep(parts) ==
  IF parts = <<>> THEN <<>> ELSE Head(parts) \o JoinNoSep(Tail(parts))
RECURSIVE Join(_)
\* line 141: " ".join(full_text)
Join(parts) ==
  IF parts = <<>> THEN <<>>
  ELSE IF Len(parts) = 1 THEN Head(parts)
  ELSE Head(parts) \o <<" ">> \o Join(Tail(parts))

ExitKeepsChunks(fs) == fs \ {audio_file}
\* line 60: TemporaryDirectory.__exit__ removes the directory and all in it
Exit(fs) == {}

IsMissingNoneOnly(u) == u = None
\* line 161: if not video_url
IsMissing(u) == u = None \/ u = ""

\* line 160: item.get("video_url")
Get(it, key) == IF key \in DOMAIN it THEN it[key] ELSE None

Call(op, ok, file, ss, result) ==
  [op |-> op, ok |-> ok, file |-> file, ss |-> ss, result |-> result]

Init ==
  /\ entry = "none"
  /\ item = [k \in {} |-> ""]
  /\ video_url = None
  /\ chunk_duration = DefaultChunkDuration
  /\ pc = "idle"
  /\ ep = "idle"
  /\ model = FALSE
  /\ tmpdir = FALSE
  /\ files = {}
  /\ probed = FALSE
  /\ duration = 0
  /\ num_chunks = 0
  /\ i = 0
  /\ chunks = <<>>
  /\ j = 1
  /\ all_segments = <<>>
  /\ full_text = <<>>
  /\ ret = [state |-> "none"]
  /\ response = [state |-> "none"]
  /\ io = <<>>

\* lines 148-150 with the exit of the with block: the exception propagates
Raise(exc) ==
  /\ pc' = "raised"
  /\ ret' = [state |-> "raised", exc |-> exc]
  /\ files' = IF tmpdir THEN Exit(files) ELSE files
  /\ tmpdir' = FALSE

\* a caller invokes transcribe_video(video_url, chunk_duration) itself
CallFunction(u, cd) ==
  /\ pc = "idle" /\ ep = "idle"
  /\ entry' = "function"
  /\ video_url' = u
  /\ chunk_duration' = cd
  /\ pc' = "load"
  /\ UNCHANGED <<item, ep, model, tmpdir, files, probed, duration, num_chunks, i,
                 chunks, j, all_segments, full_text, ret, response, io>>

\* transcribe_endpoint up to the remote call, lines 160-165
EndpointCall(it) ==
  /\ pc = "idle" /\ ep = "idle"
  /\ entry' = "endpoint"
  /\ item' = it
  /\ IF IsMissing(Get(it, "video_url"))
       THEN /\ response' = [state |-> "returned",
                            body |-> [error |-> "video_url is required"],
                            status |-> 400]
            /\ ep' = "done"
            /\ UNCHANGED <<video_url, chunk_duration, pc>>
       ELSE /\ video_url' = Get(it, "video_url")
            /\ chunk_duration' = DefaultChunkDuration
            /\ pc' = "load"
            /\ ep' = "waiting"
            /\ UNCHANGED response
  /\ UNCHANGED <<model, tmpdir, files, probed, duration, num_chunks, i,
                 chunks, j, all_segments, full_text, ret, io>>

\* transcribe_endpoint after the remote call, lines 166-168
EndpointReturn ==
  /\ ep = "waiting"
  /\ pc \in {"returned", "raised"}
  /\ response' = IF ret.state = "returned"
                   THEN [state |-> "returned", body |-> ret.value]
                   ELSE [state |-> "returned", body |-> [error |-> ret.exc], status |-> 500]
  /\ ep' = "done"
  /\ UNCHANGED <<entry, item, video_url, chunk_duration, pc, model, tmpdir, files,
                 probed, duration, num_chunks, i, chunks, j, all_segments, full_text,
                 ret, io>>

\* lines 57-62: load the model, enter the temporary directory
LoadModel ==
  /\ pc = "load"
  /\ \/ /\ model' = TRUE
        /\ tmpdir' = TRUE
        /\ pc' = "download"
        /\ UNCHANGED <<files, ret>>
     \/ /\ Raise("RuntimeError: load_model")
        /\ UNCHANGED model
  /\ UNCHANGED <<entry, item, video_url, chunk_duration, ep, probed, duration,
                 num_chunks, i, chunks, j, all_segments, full_text, response, io>>

\* lines 66-72: yt-dlp, check=True
Download ==
  /\ pc = "download"
  /\ \/ /\ io' = Append(io, Call("download", TRUE, audio_file, 0, NoResult))
        /\ files' = files \cup {audio_file}
        /\ pc' = "probe"
        /\ UNCHANGED <<ret, tmpdir>>
     \/ /\ io' = Append(io, Call("download", FALSE, audio_file, 0, NoResult))
        /\ Raise("CalledProcessError: yt-dlp")
  /\ UNCHANGED <<entry, item, video_url, chunk_duration, ep, model, probed, duration,
                 num_chunks, i, chunks, j, all_segments, full_text, response>>

\* lines 75-83: ffprobe and float()
Probe ==
  /\ pc = "probe"
  /\ \/ \E d \in Durations :
          /\ IF IsShort(d, chunk_duration) \/ chunk_duration = 0
               THEN TRUE
               ELSE NumChunks(d, chunk_duration) <= MaxChunks
          /\ io' = Append(io, Call("probe", TRUE, audio_file, 0, NoResult))
          /\ duration' = d
          /\ probed' = TRUE
          /\ pc' = "decide"
          /\ UNCHANGED <<ret, files, tmpdir>>
     \/ \E exc \in {"CalledProcessError: ffprobe", "ValueError: could not convert string to float"} :
          /\ io' = Append(io, Call("probe", FALSE, audio_file, 0, NoResult))
          /\ Raise(exc)
          /\ UNCHANGED <<duration, probed>>
  /\ UNCHANGED <<entry, item, video_url, chunk_duration, ep, model,
                 num_chunks, i, chunks, j, all_segments, full_text, response>>

\* lines 86-99: the short path
TranscribeDirect ==
  /\ pc = "decide"
  /\ IsShort(duration, chunk_duration)
  /\ \/ \E result \in Results :
          /\ io' = Append(io, Call("transcribe", TRUE, audio_file, 0, result))
          /\ ret' = [state |-> "returned",
                     value |-> [text |-> result.text,
                                segments |-> CopySegments(result.segments)]]
          /\ pc' = "returned"
          /\ files' = Exit(files)
          /\ tmpdir' = FALSE
     \/ /\ io' = Append(io, Call("transcribe", FALSE, audio_file, 0, NoResult))
        /\ Raise("RuntimeError: transcribe")
  /\ UNCHANGED <<entry, item, video_url, chunk_duration, ep, model, probed, duration,
                 num_chunks, i, chunks, j, all_segments, full_text, response>>

\* lines 103-104: chunks = [], num_chunks = int(duration / chunk_duration) + 1
Partition ==
  /\ pc = "decide"
  /\ ~IsShort(duration, chunk_duration)
  /\ IF chunk_duration = 0
       THEN /\ Raise("ZeroDivisionError: float division by zero")
            /\ UNCHANGED <<num_chunks, i, chunks, j, all_segments, full_text>>
       ELSE /\ num_chunks' = NumChunks(duration, chunk_duration)
            /\ i' = 0
            /\ chunks' = <<>>
            /\ all_segments' = <<>>
            /\ full_text' = <<>>
            /\ j' = 1
            /\ pc' = IF NumChunks(duration, chunk_duration) > 0 THEN "extract" ELSE "transcribe"
            /\ UNCHANGED <<ret, files, tmpdir>>
  /\ UNCHANGED <<entry, item, video_url, chunk_duration, ep, model, probed, duration,
                 response, io>>

\* lines 106-119: one iteration of the extraction loop, ffmpeg with check=True
ExtractChunk ==
  /\ pc = "extract"
  /\ i < num_chunks
  /\ LET start_time == StartTime(i, chunk_duration) IN
     \/ /\ io' = Append(io, Call("extract", TRUE, chunk_file(i), start_time, NoResult))
        /\ files' = files \cup {chunk_file(i)}
        /\ chunks' = Append(chunks, [start_time |-> start_time, chunk_file |-> chunk_file(i)])
        /\ i' = i + 1
        /\ pc' = IF i + 1 < num_chunks THEN "extract" ELSE "transcribe"
        /\ UNCHANGED <<ret, tmpdir>>
     \/ /\ io' = Append(io, Call("extract", FALSE, chunk_file(i), start_time, NoResult))
        /\ Raise("CalledProcessError: ffmpeg")
        /\ UNCHANGED <<chunks, i>>
  /\ UNCHANGED <<entry, item, video_url, chunk_duration, ep, model, probed, duration,
                 num_chunks, j, all_segments, full_text, response>>

\* lines 126-138: one iteration of the recognition loop
TranscribeChunk ==
  /\ pc = "transcribe"
  /\ j <= Len(chunks)
  /\ LET start_time == chunks[j].start_time
         file == chunks[j].chunk_file IN
     \/ \E result \in Results :
          /\ Len(all_segments) + Len(result.segments) <= MaxSegs
          /\ io' = Append(io, Call("transcribe", TRUE, file, 0, result))
          /\ all_segments' = all_segments \o
               [k \in 1..Len(result.segments) |-> Adjust(result.segments[k], start_time)]
          /\ full_text' = Append(full_text, result.text)
          /\ j' = j + 1
          /\ UNCHANGED <<pc, ret, files, tmpdir>>
     \/ /\ io' = Append(io, Call("transcribe", FALSE, file, 0, NoResult))
        /\ Raise("RuntimeError: transcribe")
        /\ UNCHANGED <<all_segments, full_text, j>>
  /\ UNCHANGED <<entry, item, video_url, chunk_duration, ep, model, probed, duration,
                 num_chunks, i, chunks, response>>

\* lines 141-146: merge and return, leaving the with block
Merge ==
  /\ pc = "transcribe"
  /\ j > Len(chunks)
  /\ ret' = [state |-> "returned",
             value |-> [text |-> Join(full_text), segments |-> all_segments]]
  /\ pc' = "returned"
  /\ files' = Exit(files)
  /\ tmpdir' = FALSE
  /\ UNCHANGED <<entry, item, video_url, chunk_duration, ep, model, probed, duration,
                 num_chunks, i, chunks, j, all_segments, full_text, response, io>>

Next ==
  \/ \E cd \in ChunkDurations : CallFunction("https://youtu.be/v", cd)
  \/ \E it \in Items : EndpointCall(it)
  \/ EndpointReturn
  \/ LoadModel
  \/ Download
  \/ Probe
  \/ TranscribeDirect
  \/ Partition
  \/ ExtractChunk
  \/ TranscribeChunk
  \/ Merge

Spec == Init /\ [][Next]_vars

TypeOK ==
  /\ pc \in {"idle", "load", "download", "probe", "decide", "extract", "transcribe",
             "returned", "raised"}
  /\ ep \in {"idle", "waiting", "done"}
  /\ chunk_duration \in ChunkDurations
  /\ duration \in Durations

\* ---- the history of collaborator calls, read by the properties only ----
Extracts == SelectSeq(io, LAMBDA c : c.op = "extract")
Transcribes == SelectSeq(io, LAMBDA c : c.op = "transcribe")
Returned == pc = "returned"
ChunkedRun == probed /\ duration > chunk_duration
ShortRun == probed /\ duration <= chunk_duration

\* mathematical floor of a / b, b # 0
FloorDiv(a, b) == IF b > 0 THEN a \div b ELSE (-a) \div (-b)
Min(a, b) == IF a <= b THEN a ELSE b
Max(a, b) == IF a >= b THEN a ELSE b

\* the -ss offset of the extraction that wrote the file a recognition call read
OffsetOf(call) ==
  IF call.file = audio_file THEN 0
  ELSE LET e == CHOOSE x \in 1..Len(io) : io[x].op = "extract" /\ io[x].file = call.file
       IN io[e].ss

RECURSIVE SegsBefore(_, _)
\* number of raw segments returned by the first k - 1 recognition calls of T
SegsBefore(T, k) ==
  IF k <= 1 THEN 0 ELSE SegsBefore(T, k - 1) + Len(T[k - 1].result.segments)

RECURSIVE CharsBefore(_, _)
\* number of characters of the first k - 1 recognized texts of T
CharsBefore(T, k) ==
  IF k <= 1 THEN 0 ELSE CharsBefore(T, k - 1) + Len(T[k - 1].result.text)

RawOrdered ==
  \A k \in 1..Len(Transcribes) :
    LET segs == Transcribes[k].result.segments IN
    \A m \in 1..(Len(segs) - 1) : segs[m].start <= segs[m + 1].start

MergedOrdered ==
  LET segs == ret.value.segments IN
  \A m \in 1..(Len(segs) - 1) : segs[m].start <= segs[m + 1].start

ProcessedAscending ==
  \A k \in 1..(Len(Transcribes) - 1) :
    OffsetOf(Transcribes[k]) < OffsetOf(Transcribes[k + 1])

\* ---- C1 ----
\* C1: a returned run with probed duration d > chunk_duration has materialized
\* exactly floor(d / chunk_duration) + 1 chunks, chunk i at offset
\* i * chunk_duration, with one extraction and one recognition per chunk.
C1_ChunkCount ==
  (Returned /\ ChunkedRun /\ chunk_duration # 0) =>
    LET n == FloorDiv(duration, chunk_duration) + 1 IN
    /\ Len(chunks) = n
    /\ Len(Extracts) = n
    /\ Len(Transcribes) = n
    /\ \A k \in 1..Len(chunks) :
         /\ chunks[k].start_time = (k - 1) * chunk_duration
         /\ Extracts[k].ss = (k - 1) * chunk_duration
         /\ Extracts[k].file = chunks[k].chunk_file
         /\ Transcribes[k].file = chunks[k].chunk_file

\* C1 read for positive chunk_duration only: the same statement, and at every
\* moment of a chunked run the extractions made so far are those of chunks
\* 0, 1, ... in order and never more than floor(d / chunk_duration) + 1.
C1_PositiveChunkDuration ==
  (ChunkedRun /\ chunk_duration > 0) =>
    LET n == (duration \div chunk_duration) + 1 IN
    /\ Len(Extracts) <= n
    /\ Len(Transcribes) <= Len(Extracts)
    /\ \A k \in 1..Len(Extracts) : Extracts[k].ss = (k - 1) * chunk_duration
    /\ Returned =>
         /\ Len(chunks) = n /\ Len(Extracts) = n /\ Len(Transcribes) = n
         /\ \A k \in 1..n : /\ chunks[k].start_time = (k - 1) * chunk_duration
                            /\ Transcribes[k].file = chunks[k].chunk_file

\* reached: the exactly-divisible case, 3 chunks for d = 2 * chunk_duration
C1_PositiveWitness ==
  /\ Returned /\ chunk_duration = DefaultChunkDuration
  /\ probed /\ duration = 2 * DefaultChunkDuration /\ Len(chunks) = 3

\* ---- C2 ----
\* C2: when the probed duration d <= chunk_duration, no chunk extraction is
\* ever invoked, recognition is invoked exactly once by the time the run ends,
\* on the downloaded asset, and a returned transcript carries the engine's
\* text and segments (start, end, text) unchanged.
C2_ShortPath ==
  ShortRun =>
    /\ Extracts = <<>>
    /\ Len(Transcribes) <= 1
    /\ pc \in {"returned", "raised"} =>
         /\ Len(Transcribes) = 1
         /\ Transcribes[1].file = audio_file
    /\ Returned =>
         /\ ret.value.text = Transcribes[1].result.text
         /\ Len(ret.value.segments) = Len(Transcribes[1].result.segments)
         /\ \A m \in 1..Len(ret.value.segments) :
              /\ ret.value.segments[m].start = Transcribes[1].result.segments[m].start
              /\ ret.value.segments[m].end = Transcribes[1].result.segments[m].end
              /\ ret.value.segments[m].text = Transcribes[1].result.segments[m].text

C2_Witness ==
  /\ Returned /\ probed /\ duration = chunk_duration /\ duration > 0
  /\ Len(ret.value.segments) = 2
  /\ ret.value.segments[2].end = 2

\* ---- C3 ----
\* C3: in a returned chunked run the merged segments are exactly the raw
\* segments of the recognition calls, in call order, none dropped or repeated,
\* each with start and end shifted by the offset of its chunk and its text kept.
C3_OffsetTranslation ==
  (Returned /\ ChunkedRun) =>
    LET T == Transcribes
        out == ret.value.segments IN
    /\ Len(out) = SegsBefore(T, Len(T) + 1)
    /\ \A k \in 1..Len(T) : \A m \in 1..Len(T[k].result.segments) :
         LET raw == T[k].result.segments[m]
             seg == out[SegsBefore(T, k) + m] IN
         /\ seg.start = raw.start + OffsetOf(T[k])
         /\ seg.end = raw.end + OffsetOf(T[k])
         /\ seg.text = raw.text

C3_Witness ==
  /\ Returned /\ ChunkedRun
  /\ Len(Transcribes) = 3
  /\ Len(Transcribes[2].result.segments) = 1
  /\ Len(Transcribes[3].result.segments) = 1
  /\ ret.value.segments[2].end = 2 * chunk_duration + 1

\* ---- C4 ----
\* C4 as claimed: in every returned run whose per-chunk raw segments are
\* ordered by start, chunks were processed in ascending offset order and the
\* merged segments are in non-decreasing start order.
C4_MergedOrderAsClaimed ==
  (Returned /\ RawOrdered) => (ProcessedAscending /\ MergedOrdered)

\* every raw segment of a chunk starts within [0, chunk_duration] of its chunk
RawStartsWithinChunk ==
  \A k \in 1..Len(Transcribes) : \A m \in 1..Len(Transcribes[k].result.segments) :
    /\ Transcribes[k].result.segments[m].start >= 0
    /\ Transcribes[k].result.segments[m].start <= chunk_duration

\* C4 amended: the same, for engine outputs that in a chunked run also start
\* every raw segment within [0, chunk_duration] of its chunk.
C4_MergedOrder ==
  (Returned /\ RawOrdered /\ (ChunkedRun => RawStartsWithinChunk)) =>
    (ProcessedAscending /\ MergedOrdered)

C4_Witness ==
  /\ Returned /\ ChunkedRun /\ RawOrdered /\ RawStartsWithinChunk
  /\ Len(Transcribes) = 3
  /\ Len(Transcribes[1].result.segments) = 1
  /\ Len(Transcribes[2].result.segments) = 1
  /\ Transcribes[1].result.segments[1].start = chunk_duration
  /\ Transcribes[2].result.segments[1].start = 0

\* ---- C5 ----
\* C5: a call with chunk_duration <= 0 makes no download, probe, extraction or
\* recognition call and never returns a transcript.
C5_ValidatesChunkDuration ==
  (pc # "idle" /\ chunk_duration <= 0) => (io = <<>> /\ ~Returned)

\* ---- C6 ----
\* C6: after a probe that reports a non-positive duration, neither extraction
\* nor recognition is invoked and no transcript is returned.
C6_RejectsNonPositiveDuration ==
  (probed /\ duration <= 0) => (Extracts = <<>> /\ Transcribes = <<>> /\ ~Returned)

\* ---- C7 ----
\* C7: a failed collaborator call is the last call of the run and the run has
\* raised; when the failed call is an extraction or a recognition, the run
\* holds one exception and no transcript, and no temporary file or directory
\* is left.
C7_FailureAborts ==
  /\ \A k \in 1..Len(io) : ~io[k].ok => (k = Len(io) /\ pc = "raised")
  /\ (io # <<>> /\ ~io[Len(io)].ok /\ io[Len(io)].op \in {"extract", "transcribe"}) =>
       /\ DOMAIN ret = {"state", "exc"}
       /\ ret.state = "raised"
       /\ files = {}
       /\ ~tmpdir

C7_Witness ==
  /\ pc = "raised" /\ io # <<>>
  /\ io[Len(io)].op = "transcribe" /\ ~io[Len(io)].ok
  /\ Len(all_segments) = 2 /\ Len(full_text) = 2
  /\ files = {}

\* ---- C8 ----
\* C8: transcribe_endpoint has returned.  With video_url absent or empty the
\* return value is ({"error": "video_url is required"}, 400) and neither
\* transcribe_video nor a collaborator was called; otherwise a raised
\* transcribe_video gives ({"error": message}, 500) and a returned one gives
\* its transcript as it is.
C8_Endpoint ==
  (ep = "done") =>
    IF "video_url" \notin DOMAIN item \/ item["video_url"] = ""
      THEN /\ response = [state |-> "returned",
                          body |-> [error |-> "video_url is required"],
                          status |-> 400]
           /\ io = <<>> /\ pc = "idle" /\ ~model /\ ret.state = "none"
      ELSE /\ ret.state \in {"raised", "returned"}
           /\ ret.state = "raised" =>
                response = [state |-> "returned", body |-> [error |-> ret.exc],
                            status |-> 500]
           /\ ret.state = "returned" =>
                response = [state |-> "returned", body |-> ret.value]

C8_Witness ==
  /\ ep = "done"
  /\ "video_url" \in DOMAIN item /\ item["video_url"] = ""
  /\ response.status = 400

C8_WitnessError ==
  /\ ep = "done" /\ ret.state = "raised" /\ response.status = 500
  /\ response.body.error = "CalledProcessError: ffmpeg"

C8_WitnessSuccess ==
  /\ ep = "done" /\ ret.state = "returned" /\ Len(response.body.segments) = 2
  /\ Len(Transcribes) = 3

\* ---- C9 ----
\* C9: in a returned chunked run there is one recognized text per chunk, taken
\* in ascending chunk order, and the returned text is these texts laid end to
\* end with exactly one space between consecutive ones, empty texts included.
C9_JoinedText ==
  (Returned /\ ChunkedRun) =>
    LET T == Transcribes
        n == Len(T)
        text == ret.value.text
        At(k) == CharsBefore(T, k) + (k - 1) IN
    /\ n = Len(Extracts)
    /\ \A k \in 1..n : T[k].file = Extracts[k].file
    /\ \A k \in 1..(n - 1) : Extracts[k].ss < Extracts[k + 1].ss
    /\ Len(text) = IF n = 0 THEN 0 ELSE CharsBefore(T, n + 1) + (n - 1)
    /\ \A k \in 1..n :
         /\ \A m \in 1..Len(T[k].result.text) : text[At(k) + m] = T[k].result.text[m]
         /\ k < n => text[At(k) + Len(T[k].result.text) + 1] = " "

C9_Witness ==
  /\ Returned /\ ChunkedRun
  /\ Len(Transcribes) = 3
  /\ Transcribes[1].result.text = <<"a">>
  /\ Transcribes[2].result.text = <<>>
  /\ Transcribes[3].result.text = <<"a">>
  /\ ret.value.text = <<"a", " ", " ", "a">>

\* ---- C10 ----
\* length of the asset a recognition call was given: the whole audio, or a
\* chunk clamped to the audio remaining after its offset
AssetLen(call) ==
  IF call.file = audio_file THEN duration
  ELSE Max(0, Min(chunk_duration, duration - OffsetOf(call)))

RawWithinAsset ==
  \A k \in 1..Len(Transcribes) : \A m \in 1..Len(Transcribes[k].result.segments) :
    LET raw == Transcribes[k].result.segments[m] IN
    0 <= raw.start /\ raw.start <= raw.end /\ raw.end <= AssetLen(Transcribes[k])

\* the requested windows [ss, ss + chunk_duration) of the run: one per
\* extraction, or the single window at 0 of a short run
Windows == IF ShortRun THEN {0} ELSE {Extracts[k].ss : k \in 1..Len(Extracts)}

\* C10: in a returned run with positive chunk_duration whose raw segments lie
\* within the (clamped) length of the asset they come from, every chunk
\* offset is <= duration, the chunk windows do not overlap and cover
\* [0, duration) without a gap (one starts at 0, and each one either reaches
\* duration or ends where another starts), and no merged segment starts or
\* ends after duration.
C10_Timeline ==
  (Returned /\ probed /\ chunk_duration > 0 /\ RawWithinAsset) =>
    /\ \A w \in Windows : w <= duration
    /\ ShortRun \/ Cardinality(Windows) = Len(Extracts)
    /\ \A w1, w2 \in Windows :
         w1 = w2 \/ w1 + chunk_duration <= w2 \/ w2 + chunk_duration <= w1
    /\ 0 \in Windows
    /\ \A w \in Windows : w + chunk_duration >= duration \/ w + chunk_duration \in Windows
    /\ \A m \in 1..Len(ret.value.segments) :
         /\ ret.value.segments[m].start <= duration
         /\ ret.value.segments[m].end <= duration

C10_Witness ==
  /\ Returned /\ ChunkedRun /\ chunk_duration = 2 /\ duration = 3 /\ RawWithinAsset
  /\ Len(Transcribes) = 2
  /\ Len(ret.value.segments) = 2
  /\ ret.value.segments[1].end = 2
  /\ ret.value.segments[2].start = 2
  /\ ret.value.segments[2].end = 3
====
